---------------------------- MODULE Spec2Model ----------------------------
(***************************************************************************)
(* Model of gitui's asynchronous commit filter                             *)
(* (src/components/utils/async_commit_filter.rs): the pure matching        *)
(* predicate AsyncCommitFilterer::filter, and the engine that runs it on   *)
(* worker-pool tasks (start_filter / stop_filter / is_pending) over a log  *)
(* that grows in the background; and of the window cache ItemBatch         *)
(* (src/components/utils/logitems.rs), with the orchestrator's refill of   *)
(* it, Revlog::fetch_commits (src/tabs/revlog.rs).                         *)
(*                                                                         *)
(* The specifications:                                                     *)
(*   FilterSpec - the pure function filter applied to bounded inputs;      *)
(*   Spec       - the engine: one control thread and the spawned tasks;    *)
(*   FairSpec   - Spec under fair scheduling of the tasks;                 *)
(*   ItemsSpec  - get_filter_items applied to a filled result buffer;      *)
(*   BatchSpec  - ItemBatch: set_items, extend, clear, needs_data;         *)
(*   RevlogSpec - Revlog::fetch_commits refilling the ItemBatch from a log *)
(*                that grows.                                              *)
(***************************************************************************)
EXTENDS Integers, Sequences, FiniteSets, TLC

VARIABLES
    \* ---- AsyncCommitFilterer fields (async_commit_filter.rs:74-85) ----
    filtered_commits,      \* Arc<Mutex<Vec<CommitInfo>>>; each entry also
                           \* carries the run that appended it (ghost)
    filter_count,          \* Arc<AtomicUsize>
    filter_finished,       \* Arc<AtomicBool>
    is_pending_local,      \* RefCell<bool>
    filter_thread_sender,  \* Option<Sender<bool>>: 0 = None, k = the channel
                           \* created by the k-th start_filter call
    filter_thread_mutex,   \* the mutex the field currently points to: 0 = the
                           \* one made by new(), k = made by the k-th call
    \* ---- channels and tasks ----
    signalled,             \* channels holding at least one stop message
    task,                  \* task[k]: the closure spawned by the k-th call
    \* ---- the log source (AsyncLog) ----
    logLen,                \* number of commits the log source knows so far
    logPending,            \* AsyncLog::is_pending()
    \* ---- history of the control thread's calls (ghost) ----
    nCalls,                \* number of start_filter calls made so far
    res,                   \* res[k]: what the k-th start_filter returned
    tagErr,                \* tagErr[k]: the k-th call needed the tags and the
                           \* tag source returned an error
    stopped,               \* stop_filter was the control thread's last
                           \* start/stop call
    \* ---- ItemBatch fields (logitems.rs:29-32) ----
    index_offset,          \* usize
    items,                 \* Vec<LogEntry>, each entry named by its commit id
    \* ---- inputs and output of the pure function (FilterSpec) ----
    \* ---- arguments and result of the call under test (FilterSpec,
    \* ---- ItemsSpec, BatchSpec, RevlogSpec) ----
    fin,                   \* the arguments: [commits, tags, expr] of filter
    fout,                  \* the result of the call
    fpc                    \* "in" before the call, "out" after it

engineVars == <<filtered_commits, filter_count, filter_finished,
                is_pending_local, filter_thread_sender, filter_thread_mutex,
                signalled, task, logLen, logPending, nCalls, res, tagErr,
                stopped>>
filterVars == <<fin, fout, fpc>>
batchVars == <<index_offset, items>>
restVars == <<filterVars, batchVars>>
vars == <<engineVars, filterVars, batchVars>>

---------------------------------------------------------------------------
(* Strings are sequences of one-character strings.                         *)

\* str::to_lowercase, on the characters the model uses
ToLowerChar(c) ==
    CASE c = "A" -> "a"
      [] c = "B" -> "b"
      [] c = "F" -> "f"
      [] c = "I" -> "i"
      [] c = "X" -> "x"
      [] OTHER -> c

to_lowercase(s) == [i \in 1..Len(s) |-> ToLowerChar(s[i])]

\* str::contains(pattern): pattern occurs as a contiguous substring
contains(hay, pat) ==
    \E i \in 0..(Len(hay) - Len(pat)) :
        \A j \in 1..Len(pat) : hay[i + j] = pat[j]

\* CommitId::to_string: an id is a sequence of nibbles, printed as lowercase
\* hexadecimal digits
HexDigit(n) ==
    CASE n = 0 -> "0" [] n = 1 -> "1" [] n = 2 -> "2" [] n = 3 -> "3"
      [] n = 4 -> "4" [] n = 5 -> "5" [] n = 6 -> "6" [] n = 7 -> "7"
      [] n = 8 -> "8" [] n = 9 -> "9" [] n = 10 -> "a" [] n = 11 -> "b"
      [] n = 12 -> "c" [] n = 13 -> "d" [] n = 14 -> "e" [] OTHER -> "f"

id_to_string(id) == [i \in 1..Len(id) |-> HexDigit(id[i])]

---------------------------------------------------------------------------
(* FilterBy (bitflags): a flag set is modelled as the set of its flags.    *)

SHA == "SHA"
AUTHOR == "AUTHOR"
MESSAGE == "MESSAGE"
NOT == "NOT"
CASE_SENSITIVE == "CASE_SENSITIVE"
TAGS == "TAGS"

FilterBy_all == {SHA, AUTHOR, MESSAGE, NOT, CASE_SENSITIVE, TAGS}

\* FilterBy::exclude_modifiers: self & !NOT & !CASE_SENSITIVE
exclude_modifiers(self) == (self \ {NOT}) \ {CASE_SENSITIVE}

\* FilterBy::everywhere(): Self::all() & !NOT & !CASE_SENSITIVE
FilterBy_everywhere == (FilterBy_all \ {NOT}) \ {CASE_SENSITIVE}

\* a default that names the three text fields one by one
FilterBy_default_TextFields == {SHA, AUTHOR, MESSAGE}

\* <FilterBy as Default>::default(): Self::all() & !NOT & !CASE_SENSITIVE
FilterBy_default == (FilterBy_all \ {NOT}) \ {CASE_SENSITIVE}

\* Option<Tags>: None, or Some(map from commit id to the commit's tag names)
NoTags == [some |-> FALSE, map |-> <<>>]
SomeTags(m) == [some |-> TRUE, map |-> m]

\* commit_tags.iter().filter(|tag| tag.name.contains(s)).count() > 0
AnyTagContains(commit_tags, s) ==
    \E i \in 1..Len(commit_tags) : contains(commit_tags[i], s)

\* commit_tags.iter().filter(|tag| !tag.name.contains(s)).count() > 0
AnyTagLacks(commit_tags, s) ==
    \E i \in 1..Len(commit_tags) : ~contains(commit_tags[i], s)

LowerTags(commit_tags) ==
    [i \in 1..Len(commit_tags) |-> to_lowercase(commit_tags[i])]

\* A clause evaluator with two switches, from which the mutants of ClauseTrue
\* are made: foldPattern = FALSE leaves the pattern unfolded in the
\* case-insensitive branches (s instead of s.to_lowercase()); absentNeg is
\* the map_or default of the negated tag lookup.
ClauseVariant(commit, tags, s, filter, foldPattern, absentNeg) ==
    LET cs == CASE_SENSITIVE \in filter
        hay(x) == IF cs THEN x ELSE to_lowercase(x)
        pat == IF cs \/ ~foldPattern THEN s ELSE to_lowercase(s)
        hit(x) == IF NOT \in filter
                  THEN ~contains(hay(x), pat)
                  ELSE contains(hay(x), pat)
    IN  \/ /\ TAGS \in filter
           /\ tags.some
           /\ IF commit.id \in DOMAIN tags.map
              THEN \E i \in 1..Len(tags.map[commit.id]) :
                       hit(tags.map[commit.id][i])
              ELSE NOT \in filter /\ absentNeg
        \/ (SHA \in filter /\ hit(id_to_string(commit.id)))
        \/ (AUTHOR \in filter /\ hit(commit.author))
        \/ (MESSAGE \in filter /\ hit(commit.message))

\* mutant: the case-insensitive branches compare against the pattern as typed
ClauseTrue_PatternNotFolded(commit, tags, s, filter) ==
    ClauseVariant(commit, tags, s, filter, FALSE, TRUE)

\* mutant: the negated tag lookup defaults to false for an untagged commit
ClauseTrue_AbsentFalse(commit, tags, s, filter) ==
    ClauseVariant(commit, tags, s, filter, TRUE, FALSE)

\* The value assigned to is_and for one clause (s, filter) of a group:
\* the four branches of the closure, in source order.
ClauseTrue(commit, tags, s, filter) ==
    IF CASE_SENSITIVE \in filter
    THEN IF NOT \in filter
         THEN \/ /\ TAGS \in filter
                 /\ tags.some
                 /\ IF commit.id \in DOMAIN tags.map
                    THEN AnyTagLacks(tags.map[commit.id], s)
                    ELSE TRUE
              \/ (SHA \in filter /\ ~contains(id_to_string(commit.id), s))
              \/ (AUTHOR \in filter /\ ~contains(commit.author, s))
              \/ (MESSAGE \in filter /\ ~contains(commit.message, s))
         ELSE \/ /\ TAGS \in filter
                 /\ tags.some
                 /\ IF commit.id \in DOMAIN tags.map
                    THEN AnyTagContains(tags.map[commit.id], s)
                    ELSE FALSE
              \/ (SHA \in filter /\ contains(id_to_string(commit.id), s))
              \/ (AUTHOR \in filter /\ contains(commit.author, s))
              \/ (MESSAGE \in filter /\ contains(commit.message, s))
    ELSE IF NOT \in filter
         THEN \/ /\ TAGS \in filter
                 /\ tags.some
                 /\ IF commit.id \in DOMAIN tags.map
                    THEN AnyTagLacks(LowerTags(tags.map[commit.id]),
                                     to_lowercase(s))
                    ELSE TRUE
              \/ /\ SHA \in filter
                 /\ ~contains(to_lowercase(id_to_string(commit.id)),
                              to_lowercase(s))
              \/ /\ AUTHOR \in filter
                 /\ ~contains(to_lowercase(commit.author), to_lowercase(s))
              \/ /\ MESSAGE \in filter
                 /\ ~contains(to_lowercase(commit.message), to_lowercase(s))
         ELSE \/ /\ TAGS \in filter
                 /\ tags.some
                 /\ IF commit.id \in DOMAIN tags.map
                    THEN AnyTagContains(LowerTags(tags.map[commit.id]),
                                        to_lowercase(s))
                    ELSE FALSE
              \/ /\ SHA \in filter
                 /\ contains(to_lowercase(id_to_string(commit.id)),
                             to_lowercase(s))
              \/ /\ AUTHOR \in filter
                 /\ contains(to_lowercase(commit.author), to_lowercase(s))
              \/ /\ MESSAGE \in filter
                 /\ contains(to_lowercase(commit.message), to_lowercase(s))

\* for (s, filter) in to_and { is_and = <clause> }: the inner loop, from
\* clause i on, with the value is_and holds when the loop gets there
RECURSIVE IsAndLoop(_, _, _, _, _)
IsAndLoop(commit, tags, to_and, i, is_and) ==
    IF i > Len(to_and)
    THEN is_and
    ELSE IsAndLoop(commit, tags, to_and, i + 1,
                   ClauseTrue(commit, tags, to_and[i].s, to_and[i].filter))

\* for to_and in filter_strings { ...; if is_and { return true } } false
RECURSIVE KeepCommit(_, _, _, _)
KeepCommit(commit, tags, filter_strings, g) ==
    IF g > Len(filter_strings)
    THEN FALSE
    ELSE IF IsAndLoop(commit, tags, filter_strings[g], 1, TRUE)
         THEN TRUE
         ELSE KeepCommit(commit, tags, filter_strings, g + 1)

\* filter collecting the kept records in front of those kept before them
RECURSIVE FilterFrom_Prepending(_, _, _, _)
FilterFrom_Prepending(vec_commit_info, tags, filter_strings, i) ==
    IF i > Len(vec_commit_info)
    THEN <<>>
    ELSE FilterFrom_Prepending(vec_commit_info, tags, filter_strings, i + 1)
         \o (IF KeepCommit(vec_commit_info[i], tags, filter_strings, 1)
             THEN <<vec_commit_info[i]>>
             ELSE <<>>)

\* vec_commit_info.into_iter().filter(..).collect()
RECURSIVE FilterFrom(_, _, _, _)
FilterFrom(vec_commit_info, tags, filter_strings, i) ==
    IF i > Len(vec_commit_info)
    THEN <<>>
    ELSE (IF KeepCommit(vec_commit_info[i], tags, filter_strings, 1)
          THEN <<vec_commit_info[i]>>
          ELSE <<>>)
         \o FilterFrom(vec_commit_info, tags, filter_strings, i + 1)

Filter(vec_commit_info, tags, filter_strings) ==
    FilterFrom(vec_commit_info, tags, filter_strings, 1)

\* get_tags: does any clause of the expression select the tags field
contains_tags(filter_strings) ==
    \E g \in 1..Len(filter_strings) :
        \E c \in 1..Len(filter_strings[g]) :
            TAGS \in filter_strings[g][c].filter

\* mutant: a failure of the tag source is swallowed and read as "no tags"
get_tags_SwallowError(filter_strings, last) ==
    IF contains_tags(filter_strings) /\ last.ok
    THEN last
    ELSE [ok |-> TRUE, val |-> NoTags]

\* get_tags(filter_strings, git_tags): last is what git_tags.last() returns,
\* [ok |-> FALSE] for an error or [ok |-> TRUE, val |-> Option<Tags>]
get_tags(filter_strings, last) ==
    IF contains_tags(filter_strings)
    THEN last
    ELSE [ok |-> TRUE, val |-> NoTags]

---------------------------------------------------------------------------
(* FilterSpec: the pure function filter, applied to bounded inputs.        *)

MaxCommits == 2     \* longest commit sequence handed to filter
MaxGroups == 2      \* most AND-groups in an expression
MaxClauses == 2     \* most clauses in an AND-group

\* sequences over S of length at most n
BSeq(S, n) == UNION {[1..k -> S] : k \in 0..n}

Clause(s, filter) == [s |-> s, filter |-> filter]
Commit(id, author, message) ==
    [id |-> id, author |-> author, message |-> message]

FieldStrings == {<<"a">>, <<"A", "b">>, <<"b">>}
Patterns == {<<>>, <<"A">>, <<"b">>, <<"a", "b">>}
TagLists == {<<>>, <<(<<"a">>)>>, <<(<<"A", "b">>)>>,
             <<(<<"a">>), (<<"b">>)>>}

\* commits for single-clause inputs; only id <<10>> ("a") can be tagged
CommitPool ==
    {Commit(id, a, m) : id \in {<<10>>, <<11>>},
                        a \in FieldStrings, m \in FieldStrings}
TagOptions ==
    {NoTags, SomeTags(<<>>)}
        \cup {SomeTags([id \in {<<10>>} |-> tl]) : tl \in TagLists}

\* family 1: one commit, one clause, every flag set
SingleClauseInputs ==
    {[commits |-> <<c>>, tags |-> t, expr |-> <<(<<Clause(p, f)>>)>>] :
        c \in CommitPool, t \in TagOptions,
        p \in Patterns, f \in SUBSET FilterBy_all}

\* family 2: commit sequences against multi-group, multi-clause expressions
SeqCommits == {Commit(<<10>>, <<"a">>, <<"a">>),
               Commit(<<11>>, <<"b">>, <<"a">>),
               Commit(<<11>>, <<"a">>, <<"b">>)}
ClausePool == {Clause(<<"a">>, {MESSAGE}), Clause(<<"B">>, {AUTHOR, NOT})}
Groups == BSeq(ClausePool, MaxClauses)
Exprs == BSeq(Groups, MaxGroups)
MultiClauseInputs ==
    {[commits |-> cs, tags |-> NoTags, expr |-> e] :
        cs \in BSeq(SeqCommits, MaxCommits), e \in Exprs}

\* family 3: the two documented scenarios
ScenarioA ==
    [commits |->
        <<Commit(<<1>>, <<"x">>, <<"F", "i", "x", " ", "b", "u", "g">>),
          Commit(<<2>>, <<"x">>,
                 <<"u", "n", "r", "e", "l", "a", "t", "e", "d">>),
          Commit(<<3>>, <<"x">>,
                 <<"F", "I", "X", " ", "t", "y", "p", "o">>)>>,
     tags |-> NoTags,
     expr |-> <<(<<Clause(<<"f", "i", "x">>, {MESSAGE})>>)>>]
ScenarioB ==
    [commits |->
        <<Commit(<<1>>, <<"a", "l", "i", "c", "e">>, <<"m">>),
          Commit(<<2>>, <<"b", "u", "i", "l", "d", "-", "b", "o", "t">>,
                 <<"m">>),
          Commit(<<3>>, <<"c", "a", "r", "o", "l">>, <<"m">>)>>,
     tags |-> NoTags,
     expr |-> <<(<<Clause(<<"b", "o", "t">>, {AUTHOR, NOT})>>)>>]

FilterInputs ==
    SingleClauseInputs \cup MultiClauseInputs \cup {ScenarioA, ScenarioB}

EngineIdle ==
    /\ filtered_commits = <<>>
    /\ filter_count = 0
    /\ filter_finished = FALSE
    /\ is_pending_local = FALSE
    /\ filter_thread_sender = 0
    /\ filter_thread_mutex = 0
    /\ signalled = {}
    /\ task = <<>>
    /\ logLen = 0
    /\ logPending = TRUE
    /\ nCalls = 0
    /\ res = <<>>
    /\ tagErr = <<>>
    /\ stopped = FALSE

\* ItemBatch::default()
BatchIdle ==
    /\ index_offset = 0
    /\ items = <<>>

FilterInit ==
    /\ EngineIdle
    /\ BatchIdle
    /\ fin \in FilterInputs
    /\ fout = <<>>
    /\ fpc = "in"

\* one call of AsyncCommitFilterer::filter
ApplyFilter ==
    /\ fpc = "in"
    /\ fout' = Filter(fin.commits, fin.tags, fin.expr)
    /\ fpc' = "out"
    /\ UNCHANGED <<fin, engineVars, batchVars>>

FilterNext == ApplyFilter

FilterSpec == FilterInit /\ [][FilterNext]_vars

---------------------------------------------------------------------------
(* Spec: the engine.  The control thread (the orchestrator's event loop)   *)
(* calls start_filter, stop_filter and is_pending; every successful        *)
(* start_filter spawns one closure on the worker pool.  A call of the      *)
(* control thread is one step: it makes at most one access to each shared  *)
(* atomic or channel, and a task cannot tell a sent stop message from a    *)
(* dropped sender.  A task takes one step per access to shared state.      *)
(* The pool is taken to have a free worker for every spawned closure, so   *)
(* closures may begin executing in any order.                              *)

MaxStarts == 3      \* start_filter calls per behaviour
MaxLog == 1         \* commits the log source ends up with
SLICE_SIZE == 2     \* window size (1200 in the source), scaled

\* cur_index grows without bound while the log is pending and the slices
\* come back empty.  The log never holds more than MaxLog commits, so every
\* cursor at or past MaxLog reads the same (empty) slice for ever: the model
\* leaves the cursor where it is once it is there.
Advance(cur_index) ==
    IF cur_index >= MaxLog THEN cur_index ELSE cur_index + SLICE_SIZE

\* the i-th commit of the log: odd ones have message "a", even ones "b"
LogCommit(i) ==
    Commit(<<i>>, <<"a">>, IF i % 2 = 1 THEN <<"a">> ELSE <<"b">>)

\* the expression the control thread starts (message or tag contains "a"),
\* and what the tag source may answer when asked for the snapshot
ExprT == <<(<<Clause(<<"a">>, {MESSAGE, TAGS})>>)>>
EngineExprs == {ExprT}
TagSnapshot == SomeTags([id \in {<<2>>} |-> <<(<<"v">>)>>])
TagResults == {[ok |-> FALSE, val |-> NoTags],
               [ok |-> TRUE, val |-> TagSnapshot]}

\* AsyncLog::get_slice(offset, count): up to count ids from offset, as the
\* log indexes of the ids returned
get_slice(offset, count) ==
    {i \in 1..logLen : offset < i /\ i <= offset + count}

\* sync::get_commits_info: the records of a slice, in log order
RECURSIVE CommitsFrom(_, _)
CommitsFrom(lo, n) ==
    IF n = 0 THEN <<>> ELSE <<LogCommit(lo)>> \o CommitsFrom(lo + 1, n - 1)

get_commits_info(cur_index, n) == CommitsFrom(cur_index + 1, n)

\* a call that spawned nothing.  notified: the closure's latest step sent
\* AsyncGitNotification::Log on the notification channel
NoTask == [pc |-> "none", prev |-> 0, cur_index |-> 0, n |-> 0,
           expr |-> <<>>, tags |-> NoTags, appended |-> 0, sup |-> FALSE,
           notified |-> FALSE]

Terminal == {"none", "done", "finished"}
\* positions at which a closure holds its guard _c, and both _c and _p
HoldsBoth == {"reset_finished", "reset_count", "reset_buffer", "loop",
              "get_slice", "get_info", "add_count", "append"}
HoldsCur == HoldsBoth \cup {"lockedCur"}

Calls == 1..nCalls

\* Mutex m is locked: by the closure it was created for (as _c), or by the
\* closure of the next successful call (as _p)
Held(m) ==
    \E r \in Calls :
        \/ r = m /\ task[r].pc \in HoldsCur
        \/ task[r].prev = m /\ task[r].pc \in HoldsBoth

\* the receiver of channel k exists while the closure that owns it does
RxAlive(k) == k \in Calls /\ task[k].pc \notin Terminal

\* stop_filter whose try_send puts nothing into the channel
TrySendStop_Dropped == signalled

\* sender.try_send(true) on filter_thread_sender; an error is ignored
TrySendStop ==
    IF filter_thread_sender # 0 /\ RxAlive(filter_thread_sender)
    THEN signalled \cup {filter_thread_sender}
    ELSE signalled

EngineInit ==
    /\ EngineIdle
    /\ BatchIdle
    /\ fin = [commits |-> <<>>, tags |-> NoTags, expr |-> <<>>]
    /\ fout = <<>>
    /\ fpc = "idle"

\* stop_filter()
StopFilter ==
    /\ signalled' = TrySendStop
    /\ is_pending_local' = FALSE
    /\ filter_finished' = TRUE
    /\ stopped' = TRUE
    /\ UNCHANGED <<filtered_commits, filter_count, filter_thread_sender,
                   filter_thread_mutex, task, logLen, logPending, nCalls,
                   res, tagErr, restVars>>

\* start_filter(filter_strings), where last is what git_tags.last() would
\* return: stop_filter, new channel, new mutex, is_pending_local, get_tags?,
\* spawn
StartFilter(filter_strings, last) ==
    LET k == nCalls + 1
        tags == get_tags(filter_strings, last)
        active == nCalls >= 1 /\ task[nCalls].pc \notin Terminal
    IN  /\ nCalls < MaxStarts
        /\ signalled' = TrySendStop
        /\ filter_finished' = TRUE
        /\ filter_thread_sender' = k
        /\ filter_thread_mutex' = k
        /\ is_pending_local' = TRUE
        /\ nCalls' = k
        /\ stopped' = FALSE
        /\ tagErr' = Append(tagErr,
                            contains_tags(filter_strings) /\ ~last.ok)
        /\ IF tags.ok
           THEN /\ task' = Append(task,
                       [pc |-> "spawned", prev |-> filter_thread_mutex,
                        cur_index |-> 0, n |-> 0,
                        expr |-> filter_strings, tags |-> tags.val,
                        appended |-> 0, sup |-> active,
                        notified |-> FALSE])
                /\ res' = Append(res, "ok")
           ELSE /\ task' = Append(task, NoTask)
                /\ res' = Append(res, "err")
        /\ UNCHANGED <<filtered_commits, filter_count, logLen, logPending,
                       restVars>>

\* is_pending() without the local latch: the shared flag is read on every call
IsPending_NoLatch ==
    /\ is_pending_local' = ~filter_finished
    /\ UNCHANGED <<filtered_commits, filter_count, filter_finished,
                   filter_thread_sender, filter_thread_mutex, signalled,
                   task, logLen, logPending, nCalls, res, tagErr, stopped,
                   restVars>>

\* is_pending()
IsPending ==
    /\ is_pending_local' =
           IF is_pending_local THEN ~filter_finished ELSE FALSE
    /\ UNCHANGED <<filtered_commits, filter_count, filter_finished,
                   filter_thread_sender, filter_thread_mutex, signalled,
                   task, logLen, logPending, nCalls, res, tagErr, stopped,
                   restVars>>

\* what is_pending() returns when called in the current state
is_pending == is_pending_local /\ ~filter_finished
\* count()
count == filter_count
\* fetch() == FilterStatus::Finished
fetch_Finished == filter_finished

\* frame of a step of closure k that touches only its own record
TaskOnly ==
    UNCHANGED <<filtered_commits, filter_count, filter_finished,
                is_pending_local, filter_thread_sender, filter_thread_mutex,
                signalled, logLen, logPending, nCalls, res, tagErr, stopped,
                restVars>>

Goto(k, pc) == task' = [task EXCEPT ![k].pc = pc]

\* the Err arm of an iteration: sleep, then the next iteration
Retry(k) == Goto(k, "loop")

\* the closure returns: its locals (cursor, batch, expression, tags, the
\* receiver and both guards) are dropped; the history fields are kept for a
\* run that reached the end of the log
Return(k, pc) ==
    task' = [task EXCEPT ![k].pc = pc, ![k].cur_index = 0, ![k].n = 0,
                         ![k].expr =
                             IF pc = "finished" THEN task[k].expr ELSE <<>>,
                         ![k].tags =
                             IF pc = "finished" THEN task[k].tags ELSE NoTags,
                         ![k].appended =
                             IF pc = "finished" THEN task[k].appended ELSE 0,
                         ![k].sup = pc = "finished" /\ task[k].sup,
                         ![k].notified = FALSE]

\* let _c = cur_thread_mutex.lock()
TaskLockCur(k) ==
    /\ task[k].pc = "spawned"
    /\ ~Held(k)
    /\ Goto(k, "lockedCur")
    /\ TaskOnly

\* let _p = prev_thread_mutex.lock()
TaskLockPrev(k) ==
    /\ task[k].pc = "lockedCur"
    /\ ~Held(task[k].prev)
    /\ Goto(k, "reset_finished")
    /\ TaskOnly

\* filter_finished.store(false)
TaskResetFinished(k) ==
    /\ task[k].pc = "reset_finished"
    /\ filter_finished' = FALSE
    /\ Goto(k, "reset_count")
    /\ UNCHANGED <<filtered_commits, filter_count, is_pending_local,
                   filter_thread_sender, filter_thread_mutex, signalled,
                   logLen, logPending, nCalls, res, tagErr, stopped,
                   restVars>>

\* filter_count.store(0)
TaskResetCount(k) ==
    /\ task[k].pc = "reset_count"
    /\ filter_count' = 0
    /\ Goto(k, "reset_buffer")
    /\ UNCHANGED <<filtered_commits, filter_finished, is_pending_local,
                   filter_thread_sender, filter_thread_mutex, signalled,
                   logLen, logPending, nCalls, res, tagErr, stopped,
                   restVars>>

\* filtered_commits.lock().clear(); let mut cur_index = 0
TaskResetBuffer(k) ==
    /\ task[k].pc = "reset_buffer"
    /\ filtered_commits' = <<>>
    /\ task' = [task EXCEPT ![k].pc = "loop", ![k].cur_index = 0]
    /\ UNCHANGED <<filter_count, filter_finished, is_pending_local,
                   filter_thread_sender, filter_thread_mutex, signalled,
                   logLen, logPending, nCalls, res, tagErr, stopped,
                   restVars>>

\* rx.try_recv() that breaks out of the loop on every outcome, Empty included
TaskTryRecv_BreaksOnEmpty(k) ==
    /\ task[k].pc = "loop"
    /\ Return(k, "done")
    /\ signalled' = signalled \ {k}
    /\ UNCHANGED <<filtered_commits, filter_count, filter_finished,
                   is_pending_local, filter_thread_sender,
                   filter_thread_mutex, logLen, logPending, nCalls, res,
                   tagErr, stopped, restVars>>

\* rx.try_recv(): Ok(_) or Disconnected breaks out of the loop and drops
\* both guards; Empty goes on
TaskTryRecv(k) ==
    /\ task[k].pc = "loop"
    /\ IF k \in signalled \/ filter_thread_sender # k
       THEN /\ Return(k, "done")
            /\ signalled' = signalled \ {k}
       ELSE /\ task' = [task EXCEPT ![k].pc = "get_slice",
                                     ![k].notified = FALSE]
            /\ UNCHANGED signalled
    /\ UNCHANGED <<filtered_commits, filter_count, filter_finished,
                   is_pending_local, filter_thread_sender,
                   filter_thread_mutex, logLen, logPending, nCalls, res,
                   tagErr, stopped, restVars>>

\* get_slice whose Err arm falls through to the cursor's advance
TaskGetSlice_AdvanceOnError(k) ==
    /\ task[k].pc = "get_slice"
    /\ \/ task' = [task EXCEPT
                     ![k].pc = "get_info",
                     ![k].n = Cardinality(get_slice(task[k].cur_index,
                                                    SLICE_SIZE))]
       \/ task' = [task EXCEPT
                     ![k].pc = "loop",
                     ![k].cur_index = Advance(task[k].cur_index)]
    /\ TaskOnly

\* async_log.get_slice(cur_index, SLICE_SIZE): Ok(ids), or Err and sleep
TaskGetSlice(k) ==
    /\ task[k].pc = "get_slice"
    /\ \/ task' = [task EXCEPT
                     ![k].pc = "get_info",
                     ![k].n = Cardinality(get_slice(task[k].cur_index,
                                                    SLICE_SIZE))]
       \/ Retry(k)
    /\ TaskOnly

\* get_commits_info with the end of the log decided by the empty batch alone
TaskGetInfo_IgnoresPending(k) ==
    /\ task[k].pc = "get_info"
    /\ \/ /\ Retry(k)
          /\ UNCHANGED <<filter_finished, signalled>>
       \/ IF task[k].n = 0
          THEN /\ filter_finished' = TRUE
               /\ Return(k, "finished")
               /\ signalled' = signalled \ {k}
          ELSE /\ Goto(k, "add_count")
               /\ UNCHANGED <<filter_finished, signalled>>
    /\ UNCHANGED <<filtered_commits, filter_count, is_pending_local,
                   filter_thread_sender, filter_thread_mutex, logLen,
                   logPending, nCalls, res, tagErr, stopped, restVars>>

\* sync::get_commits_info(ids): Err and sleep, or Ok(v); with v empty and
\* the log not pending, filter_finished.store(true) and break
TaskGetInfo(k) ==
    /\ task[k].pc = "get_info"
    /\ \/ /\ Retry(k)
          /\ UNCHANGED <<filter_finished, signalled>>
       \/ IF task[k].n = 0 /\ ~logPending
          THEN /\ filter_finished' = TRUE
               /\ Return(k, "finished")
               /\ signalled' = signalled \ {k}
          ELSE /\ Goto(k, "add_count")
               /\ UNCHANGED <<filter_finished, signalled>>
    /\ UNCHANGED <<filtered_commits, filter_count, is_pending_local,
                   filter_thread_sender, filter_thread_mutex, logLen,
                   logPending, nCalls, res, tagErr, stopped, restVars>>

\* the matches of the batch closure k holds: Self::filter(v, &tags, ..)
Filtered(k) ==
    Filter(get_commits_info(task[k].cur_index, task[k].n),
           task[k].tags, task[k].expr)

\* filter_count.fetch_add(filtered.len())
TaskAddCount(k) ==
    /\ task[k].pc = "add_count"
    /\ filter_count' = filter_count + Len(Filtered(k))
    /\ Goto(k, "append")
    /\ UNCHANGED <<filtered_commits, filter_finished, is_pending_local,
                   filter_thread_sender, filter_thread_mutex, signalled,
                   logLen, logPending, nCalls, res, tagErr, stopped,
                   restVars>>

\* fc.append(&mut filtered); cur_index += SLICE_SIZE; send(Log); sleep
TaskAppend(k) ==
    /\ task[k].pc = "append"
    /\ filtered_commits' = filtered_commits \o
           [i \in 1..Len(Filtered(k)) |->
               [commit |-> Filtered(k)[i], run |-> k]]
    /\ task' = [task EXCEPT
                  ![k].pc = "loop",
                  ![k].cur_index = Advance(task[k].cur_index),
                  ![k].n = 0,
                  ![k].appended = task[k].appended + Len(Filtered(k)),
                  ![k].notified = TRUE]
    /\ UNCHANGED <<filter_count, filter_finished, is_pending_local,
                   filter_thread_sender, filter_thread_mutex, signalled,
                   logLen, logPending, nCalls, res, tagErr, stopped,
                   restVars>>

\* the log source discovers one more commit
LogGrow ==
    /\ logPending
    /\ logLen < MaxLog
    /\ logLen' = logLen + 1
    /\ UNCHANGED <<filtered_commits, filter_count, filter_finished,
                   is_pending_local, filter_thread_sender,
                   filter_thread_mutex, signalled, task, logPending,
                   nCalls, res, tagErr, stopped, restVars>>

\* the log source has walked the whole history
LogDone ==
    /\ logPending
    /\ logPending' = FALSE
    /\ UNCHANGED <<filtered_commits, filter_count, filter_finished,
                   is_pending_local, filter_thread_sender,
                   filter_thread_mutex, signalled, task, logLen, nCalls,
                   res, tagErr, stopped, restVars>>

Next ==
    \/ \E e \in EngineExprs, last \in TagResults : StartFilter(e, last)
    \/ StopFilter
    \/ IsPending
    \/ \E k \in Calls : TaskLockCur(k)
    \/ \E k \in Calls : TaskLockPrev(k)
    \/ \E k \in Calls : TaskResetFinished(k)
    \/ \E k \in Calls : TaskResetCount(k)
    \/ \E k \in Calls : TaskResetBuffer(k)
    \/ \E k \in Calls : TaskTryRecv(k)
    \/ \E k \in Calls : TaskGetSlice(k)
    \/ \E k \in Calls : TaskGetInfo(k)
    \/ \E k \in Calls : TaskAddCount(k)
    \/ \E k \in Calls : TaskAppend(k)
    \/ LogGrow
    \/ LogDone

Spec == EngineInit /\ [][Next]_vars

\* the steps of closure k
TaskStep(k) ==
    \/ TaskLockCur(k)
    \/ TaskLockPrev(k)
    \/ TaskResetFinished(k)
    \/ TaskResetCount(k)
    \/ TaskResetBuffer(k)
    \/ TaskTryRecv(k)
    \/ TaskGetSlice(k)
    \/ TaskGetInfo(k)
    \/ TaskAddCount(k)
    \/ TaskAppend(k)

\* The engine under fair scheduling: a worker that can take a step of its
\* closure eventually takes it (a closure is sequential, so at most one of
\* its steps is enabled at a time), and the log walk eventually ends.
\* Whether a fetch succeeds is not a matter of scheduling.
FairSpec ==
    /\ Spec
    /\ \A k \in 1..MaxStarts : WF_vars(k \in Calls /\ TaskStep(k))
    /\ WF_vars(LogDone)

---------------------------------------------------------------------------
(* ItemsSpec: get_filter_items applied to a filled result buffer.  usize   *)
(* is modelled as a word of WordBits bits.                                 *)

WordBits == 3       \* width of usize in the model
MaxBuf == 3         \* longest result buffer
MaxLimit == 2       \* largest message_length_limit

UsizeMax == 2^WordBits - 1
Usize == 0..UsizeMax

\* usize::min
umin(a, b) == IF a <= b THEN a ELSE b

\* UnicodeTruncateStr::unicode_truncate(width).0, every character of the
\* model being one column wide
unicode_truncate(str, width) == SubSeq(str, 1, umin(width, Len(str)))

Ok(v) == [ok |-> TRUE, val |-> v]
Panic == [ok |-> FALSE, val |-> "panic"]

\* fc[min..max].to_vec(): slice indexing panics when min > max
SliceToVec(fc, min, max) ==
    IF min > max THEN Panic ELSE Ok(SubSeq(fc, min + 1, max))

\* the outcomes of get_filter_items(start, amount, message_length_limit)
\* on the buffer fc.  min + amount is a usize addition: it panics where
\* overflow checks are compiled in and wraps where they are not.
get_filter_items(fc, start, amount, message_length_limit) ==
    LET len == Len(fc)
        min == umin(start, len)
        sum == min + amount
        cut(v) == [i \in 1..Len(v) |->
                     [v[i] EXCEPT !.message =
                         unicode_truncate(@, message_length_limit)]]
        sliced(max) ==
            LET r == SliceToVec(fc, min, umin(max, len))
            IN  IF r.ok THEN Ok(cut(r.val)) ELSE r
    IN  IF sum > UsizeMax
        THEN {Panic, sliced(sum % 2^WordBits)}
        ELSE {sliced(sum)}

ItemsPool == {Commit(<<10>>, <<"a">>, <<"A", "b">>),
              Commit(<<11>>, <<"b">>, <<"b">>)}

\* the filterer after its first run reached the end of a log whose matching
\* records are buf
EngineAfterRun(buf) ==
    /\ filtered_commits = [i \in 1..Len(buf) |->
                              [commit |-> buf[i], run |-> 1]]
    /\ filter_count = Len(buf)
    /\ filter_finished = TRUE
    /\ is_pending_local \in BOOLEAN
    /\ filter_thread_sender = 1
    /\ filter_thread_mutex = 1
    /\ signalled = {}
    /\ task = <<[NoTask EXCEPT !.pc = "finished", !.appended = Len(buf)]>>
    /\ logLen = Len(buf)
    /\ logPending = FALSE
    /\ nCalls = 1
    /\ res = <<"ok">>
    /\ tagErr = <<FALSE>>
    /\ stopped = FALSE

ItemsInit ==
    /\ \E buf \in BSeq(ItemsPool, MaxBuf) : EngineAfterRun(buf)
    /\ BatchIdle
    /\ fin \in [start : Usize, amount : Usize, limit : 0..MaxLimit]
    /\ fout = <<>>
    /\ fpc = "in"

\* one call of get_filter_items
GetFilterItems ==
    /\ fpc = "in"
    /\ fout' \in get_filter_items([i \in 1..Len(filtered_commits) |->
                                      filtered_commits[i].commit],
                                  fin.start, fin.amount, fin.limit)
    /\ fpc' = "out"
    /\ UNCHANGED <<fin, engineVars, batchVars>>

ItemsNext == GetFilterItems

ItemsSpec == ItemsInit /\ [][ItemsNext]_vars

---------------------------------------------------------------------------
(* BatchSpec: the window cache ItemBatch (components/utils/logitems.rs).   *)
(* The batch is filled with records of the log, held in memory, at offsets *)
(* that are log positions: index_offset + items.len() fits a usize.        *)

MaxItems == 6                          \* longest batch
SLICE_OFFSET_RELOAD_THRESHOLD == 2     \* 100 in the source, scaled

\* usize::saturating_sub, usize::saturating_add
saturating_sub(a, b) == IF a >= b THEN a - b ELSE 0
saturating_add(a, b) == umin(a + b, UsizeMax)

\* LogEntry::from(CommitInfo); the time column is left out
LogEntryFrom(c) == [id |-> c.id, author |-> c.author, msg |-> c.message]

\* ItemBatch::last_idx
last_idx == index_offset + Len(items)

\* ItemBatch::needs_data with the bottom test written > instead of >=
needs_data_StrictBottom(idx, idx_max) ==
    LET want_min == saturating_sub(idx, SLICE_OFFSET_RELOAD_THRESHOLD)
        want_max == umin(saturating_add(idx, SLICE_OFFSET_RELOAD_THRESHOLD),
                         idx_max)
        needs_data_top == want_min < index_offset
        needs_data_bottom == want_max > last_idx
    IN  needs_data_bottom \/ needs_data_top

\* ItemBatch::needs_data
needs_data(idx, idx_max) ==
    LET want_min == saturating_sub(idx, SLICE_OFFSET_RELOAD_THRESHOLD)
        want_max == umin(saturating_add(idx, SLICE_OFFSET_RELOAD_THRESHOLD),
                         idx_max)
        needs_data_top == want_min < index_offset
        needs_data_bottom == want_max >= last_idx
    IN  needs_data_bottom \/ needs_data_top

\* the vectors handed to the batch: up to maxlen consecutive log records
\* read from log position from
BatchCommits(from, maxlen) ==
    {get_commits_info(from, n) : n \in 0..maxlen}

\* fin before the needs_data call of a behaviour is made
NoCall == [called |-> FALSE, idx |-> 0, idx_max |-> 0]

BatchInit ==
    /\ EngineIdle
    /\ BatchIdle
    /\ fin = NoCall
    /\ fout = FALSE
    /\ fpc = "default"

\* set_items(start_index, commits)
SetItems(start_index, commits) ==
    /\ ~fin.called
    /\ start_index + Len(commits) <= UsizeMax
    /\ items' = [i \in 1..Len(commits) |-> LogEntryFrom(commits[i])]
    /\ index_offset' = start_index
    /\ fpc' = "set_items"
    /\ UNCHANGED <<fin, fout, engineVars>>

\* extend(commits)
Extend(commits) ==
    /\ ~fin.called
    /\ Len(items) + Len(commits) <= MaxItems
    /\ last_idx + Len(commits) <= UsizeMax
    /\ items' = items \o [i \in 1..Len(commits) |-> LogEntryFrom(commits[i])]
    /\ fpc' = "extend"
    /\ UNCHANGED <<index_offset, fin, fout, engineVars>>

\* clear()
BatchClear ==
    /\ ~fin.called
    /\ items' = <<>>
    /\ fpc' = "clear"
    /\ UNCHANGED <<index_offset, fin, fout, engineVars>>

\* the call of needs_data(idx, idx_max) a behaviour ends with
NeedsData(idx, idx_max) ==
    /\ ~fin.called
    /\ fin' = [called |-> TRUE, idx |-> idx, idx_max |-> idx_max]
    /\ fout' = needs_data(idx, idx_max)
    /\ UNCHANGED <<fpc, index_offset, items, engineVars>>

BatchNext ==
    \/ \E start_index \in Usize :
          \E commits \in BatchCommits(start_index, MaxItems) :
             SetItems(start_index, commits)
    \/ \E commits \in BatchCommits(last_idx, MaxItems) \ {<<>>} :
          Extend(commits)
    \/ BatchClear
    \/ \E idx \in Usize, idx_max \in Usize : NeedsData(idx, idx_max)

BatchSpec == BatchInit /\ [][BatchNext]_vars

---------------------------------------------------------------------------
(* RevlogSpec: the orchestrator refills the window cache from the log      *)
(* (tabs/revlog.rs, fetch_commits).  The selection comes from the commit   *)
(* list and is_filtering from the last call of Revlog::filter: both are    *)
(* inputs of the call; the selection is an index into the commits the list *)
(* shows, which are never more than the log holds.  The log source appends *)
(* commits in the background.                                              *)
(* revlog.rs has its own SLICE_SIZE, of the same value as the filter's.    *)

MaxRevLog == 4      \* commits the log source ends up with
MaxSelection == 4   \* largest selection index of the commit list

\* the log source discovers one more commit while the orchestrator runs
RevlogLogGrow ==
    /\ logLen < MaxRevLog
    /\ logLen' = logLen + 1
    /\ UNCHANGED <<filtered_commits, filter_count, filter_finished,
                   is_pending_local, filter_thread_sender,
                   filter_thread_mutex, signalled, task, logPending,
                   nCalls, res, tagErr, stopped, restVars>>

RevlogInit ==
    /\ EngineIdle
    /\ BatchIdle
    /\ fin = [selection |-> 0, is_filtering |-> FALSE]
    /\ fout = "none"
    /\ fpc = "new"

\* fetch_commits() with list.selection() = selection: get_slice fails and
\* the error is returned; or get_commits_info fails and the batch is left
\* alone; or the batch is set to the commits read, at offset want_min
FetchCommits(selection, is_filtering) ==
    LET want_min == saturating_sub(selection, SLICE_SIZE \div 2)
        from == IF is_filtering THEN 0 ELSE want_min
        ids == IF is_filtering
               THEN get_slice(0, UsizeMax)
               ELSE get_slice(want_min, SLICE_SIZE)
        commits == get_commits_info(from, Cardinality(ids))
    IN  /\ selection = 0 \/ selection < logLen
        /\ fin' = [selection |-> selection, is_filtering |-> is_filtering]
        /\ fpc' = "fetch_commits"
        /\ \/ /\ fout' = "Err"
              /\ UNCHANGED batchVars
           \/ /\ fout' = "Ok"
              /\ UNCHANGED batchVars
           \/ /\ fout' = "Ok(set_items)"
              /\ items' = [i \in 1..Len(commits) |->
                              LogEntryFrom(commits[i])]
              /\ index_offset' = want_min
        /\ UNCHANGED engineVars

RevlogNext ==
    \/ \E selection \in 0..MaxSelection, is_filtering \in BOOLEAN :
          FetchCommits(selection, is_filtering)
    \/ RevlogLogGrow

RevlogSpec == RevlogInit /\ [][RevlogNext]_vars

---------------------------------------------------------------------------
(* Properties of filter (checked under FilterSpec).                        *)

ScalarFields == {SHA, AUTHOR, MESSAGE}

FieldText(commit, f) ==
    CASE f = SHA -> id_to_string(commit.id)
      [] f = AUTHOR -> commit.author
      [] OTHER -> commit.message

Fold(filter, x) == IF CASE_SENSITIVE \in filter THEN x ELSE to_lowercase(x)

\* the per-field condition of a clause, as the specification words it
FieldCond(text, s, filter) ==
    IF NOT \in filter
    THEN ~contains(Fold(filter, text), Fold(filter, s))
    ELSE contains(Fold(filter, text), Fold(filter, s))

IsSingleClause(expr) == Len(expr) = 1 /\ Len(expr[1]) = 1
TheClause == fin.expr[1][1]

\* a group is satisfied when all of its clauses are, an expression when any
\* of its groups is
DNFHolds(commit, tags, expr) ==
    \E g \in 1..Len(expr) :
        \A c \in 1..Len(expr[g]) :
            ClauseTrue(commit, tags, expr[g][c].s, expr[g][c].filter)

\* C3: filter keeps a commit iff at least one AND-group of the expression
\* has all of its clauses true for that commit (disjunctive normal form).
C3_FilterIsDNF ==
    fpc = "out" =>
        fout = SelectSeq(fin.commits,
                         LAMBDA c : DNFHolds(c, fin.tags, fin.expr))

\* C4: a single clause over the scalar fields (identifier, author, message)
\* is true iff the per-field condition holds for at least one selected
\* field: containment without negate, non-containment with negate, both
\* sides case-folded unless case-sensitive is set.  Scenario A and B are the
\* two documented instances.
C4_ScalarClause ==
    fpc = "out" =>
        /\ (IsSingleClause(fin.expr) /\ TAGS \notin TheClause.filter) =>
              fout = SelectSeq(fin.commits,
                        LAMBDA c :
                          \E f \in TheClause.filter \cap ScalarFields :
                            FieldCond(FieldText(c, f), TheClause.s,
                                      TheClause.filter))
        /\ fin = ScenarioA => fout = <<fin.commits[1], fin.commits[3]>>
        /\ fin = ScenarioB => fout = <<fin.commits[1], fin.commits[3]>>

\* C4 witness: a negated, case-insensitive clause over author and message
\* whose pattern changes under case folding, kept because of the author
\* alone
C4_Witness ==
    /\ fpc = "out"
    /\ IsSingleClause(fin.expr)
    /\ TheClause.filter = {AUTHOR, MESSAGE, NOT}
    /\ TheClause.s # to_lowercase(TheClause.s)
    /\ Len(fin.commits) = 1
    /\ FieldCond(fin.commits[1].author, TheClause.s, TheClause.filter)
    /\ ~FieldCond(fin.commits[1].message, TheClause.s, TheClause.filter)
    /\ fout = fin.commits

IsTagsOnly(filter) == TAGS \in filter /\ filter \cap ScalarFields = {}

\* C5 (as claimed): a tags-only clause is false without a snapshot; without
\* negate it is true iff some tag name of the commit contains the pattern;
\* with negate it is true iff at least one tag name of the commit fails to
\* contain the pattern, hence false for a commit that has no tag at all
\* (absent from the snapshot, or with an empty tag set).
C5_TagsClause_Claimed ==
    (fpc = "out" /\ IsSingleClause(fin.expr)
        /\ IsTagsOnly(TheClause.filter)) =>
        fout = SelectSeq(fin.commits,
                  LAMBDA c :
                    /\ fin.tags.some
                    /\ c.id \in DOMAIN fin.tags.map
                    /\ \E i \in 1..Len(fin.tags.map[c.id]) :
                          FieldCond(fin.tags.map[c.id][i], TheClause.s,
                                    TheClause.filter))

\* C5 (amended): as claimed, except that with a snapshot and negate the
\* clause is also true for a commit that is absent from the snapshot; it is
\* false only for a commit present with an empty tag set.
C5_TagsClause ==
    (fpc = "out" /\ IsSingleClause(fin.expr)
        /\ IsTagsOnly(TheClause.filter)) =>
        fout = SelectSeq(fin.commits,
                  LAMBDA c :
                    /\ fin.tags.some
                    /\ IF c.id \in DOMAIN fin.tags.map
                       THEN \E i \in 1..Len(fin.tags.map[c.id]) :
                               FieldCond(fin.tags.map[c.id][i],
                                         TheClause.s, TheClause.filter)
                       ELSE NOT \in TheClause.filter)

\* C5 witness: a negated tags-only clause keeps a commit that the snapshot
\* does not mention
C5_Witness ==
    /\ fpc = "out"
    /\ IsSingleClause(fin.expr)
    /\ IsTagsOnly(TheClause.filter)
    /\ NOT \in TheClause.filter
    /\ fin.tags.some
    /\ DOMAIN fin.tags.map # {}
    /\ Len(fin.commits) = 1
    /\ fin.commits[1].id \notin DOMAIN fin.tags.map
    /\ fout = fin.commits

---------------------------------------------------------------------------
(* Properties of the engine (checked under Spec).                          *)

Latest == task[nCalls]

\* C1: supersession.  When start_filter(E2) succeeded while the run of the
\* previous start_filter(E1) was still active (every call so far having
\* succeeded), then once the E2 run has reached Finished, and until the next
\* start_filter, the result buffer holds exactly what the E2 run appended:
\* no record of another run, and none of its own removed.
C1_Supersession ==
    (/\ nCalls >= 2
     /\ \A j \in Calls : res[j] = "ok"
     /\ Latest.sup
     /\ Latest.pc = "finished") =>
        /\ \A i \in 1..Len(filtered_commits) :
              filtered_commits[i].run = nCalls
        /\ Len(filtered_commits) = Latest.appended

\* C2: only one background run filters at a time: at most one closure is
\* between taking both handoff guards and leaving its loop.
C2_OneRunAtATime ==
    Cardinality({k \in Calls : task[k].pc \in HoldsBoth}) <= 1

\* C6: a start_filter whose expression selects the tags and whose tag source
\* fails returns the error and schedules no run: no closure exists for the
\* call, so nothing is ever reset or appended for it, and the call itself
\* leaves the counter and the buffer alone and does not set the status to
\* Running.
C6_FailedStartSchedulesNothing ==
    /\ [](\A k \in Calls :
            tagErr[k] =>
               /\ res[k] = "err"
               /\ task[k].pc = "none"
               /\ \A i \in 1..Len(filtered_commits) :
                     filtered_commits[i].run # k)
    /\ [][(nCalls' = nCalls + 1 /\ tagErr'[nCalls']) =>
             /\ task' = Append(task, NoTask)
             /\ filter_count' = filter_count
             /\ filtered_commits' = filtered_commits
             /\ filter_finished']_vars

\* C6 witness: a failed start_filter happened while an earlier run was in
\* its loop, and that run has gone on since
C6_Witness ==
    /\ nCalls = 2
    /\ tagErr[2]
    /\ res[2] = "err"
    /\ task[1].pc = "done"
    /\ Len(filtered_commits) > 0

\* C7: after a start_filter that returned an error, is_pending() returns
\* false at every later call until the next start_filter.
C7_NotPendingAfterFailedStart ==
    (nCalls >= 1 /\ res[nCalls] = "err") => ~is_pending

\* C8: from the return of a successful start_filter until the new run
\* appends its first batch, count() reads 0, the status reads Running and
\* the buffer holds no record of an earlier run.
C8_ResetBeforeReturn ==
    (/\ nCalls >= 1
     /\ res[nCalls] = "ok"
     /\ ~stopped
     /\ Latest.pc \notin Terminal \cup {"append"}
     /\ Latest.cur_index = 0) =>
        /\ count = 0
        /\ ~fetch_Finished
        /\ \A i \in 1..Len(filtered_commits) :
              filtered_commits[i].run = nCalls

\* C9: after stop_filter, and until the next start_filter, is_pending() is
\* false and fetch() is Finished at every observation.
C9_StoppedStaysFinished ==
    stopped => (~is_pending /\ fetch_Finished)

\* C10: after a successful start_filter, is_pending() returns true for as
\* long as the run has not reached Finished and has not been stopped or
\* superseded.
C10_PendingWhileRunning ==
    (/\ nCalls >= 1
     /\ res[nCalls] = "ok"
     /\ ~stopped
     /\ Latest.pc # "finished") => is_pending

\* C11: the pending latch is sticky. A call of is_pending() that returns
\* false leaves the latch down, and while no start_filter call intervenes a
\* latch that is down stays down and is_pending() keeps returning false,
\* whatever the background run stores in the shared status flag.
C11_LatchSticky ==
    /\ [][(IsPending /\ ~is_pending) => ~is_pending_local']_vars
    /\ [][(~is_pending_local /\ nCalls' = nCalls)
              => (~is_pending_local' /\ ~is_pending')]_vars

\* the latch fell through is_pending() (the latest start succeeded and no
\* stop_filter followed) and the shared flag reads Filtering again
C11_Witness ==
    /\ nCalls >= 1
    /\ res[nCalls] = "ok"
    /\ ~stopped
    /\ ~is_pending_local
    /\ ~filter_finished

\* C12: whenever the status reads Finished, whether a run stored it at the
\* end of the log or stop_filter stored it, count() equals the number of
\* records in the result buffer.
C12_FinishedConsistent ==
    fetch_Finished => count = Len(filtered_commits)

\* the records of the result buffer, without the run that appended them
BufferRecords ==
    [i \in 1..Len(filtered_commits) |-> filtered_commits[i].commit]

\* C13: get_filter_items(start, amount, limit) returns the records of the
\* result buffer at positions [min(start,len), min(start+amount,len)) in
\* buffer order, their messages cut to limit (nothing when start >= len or
\* amount = 0, never more than amount records), and the call leaves the
\* buffer, the counter and the status as they were.
C13_ClampedSlice ==
    /\ [](fpc = "out" =>
            LET len == Len(BufferRecords)
                lo == umin(fin.start, len)
                hi == umin(fin.start + fin.amount, len)
            IN  /\ fout.ok
                /\ Len(fout.val) = hi - lo
                /\ Len(fout.val) <= fin.amount
                /\ \A i \in 1..(hi - lo) :
                       fout.val[i] =
                           [BufferRecords[lo + i] EXCEPT !.message =
                               unicode_truncate(@, fin.limit)])
    /\ [][(fpc = "in" /\ fpc' = "out") =>
             UNCHANGED <<filtered_commits, filter_count, filter_finished>>]_vars

\* closure k reaches the end of the log in this step
Finishes(k) ==
    /\ k \in Calls
    /\ task[k].pc # "finished"
    /\ task'[k].pc = "finished"

\* C14: a run stores Finished only in an iteration whose batch is empty
\* while the log source is not pending, and it leaves its loop in that same
\* step; when that happens at cursor 0 on an empty log the run has appended
\* nothing, count() is 0 and the result buffer is empty.
C14_EndOfLog ==
    /\ [][\A k \in 1..MaxStarts : Finishes(k) =>
             /\ task[k].pc = "get_info"
             /\ task[k].n = 0
             /\ ~logPending
             /\ filter_finished'
             /\ (task[k].cur_index = 0 /\ logLen = 0) =>
                    /\ task'[k].appended = 0
                    /\ count' = 0
                    /\ filtered_commits' = <<>>]_vars
    /\ [][(~filter_finished /\ filter_finished'
              /\ nCalls' = nCalls /\ task' # task)
             => \E k \in Calls : Finishes(k)]_vars

\* a run went straight from cursor 0 to Finished on an empty, complete log
C14_Witness ==
    /\ nCalls >= 1
    /\ Latest.pc = "finished"
    /\ Latest.appended = 0
    /\ logLen = 0
    /\ ~logPending
    /\ fetch_Finished
    /\ count = 0
    /\ filtered_commits = <<>>

\* C15: after set_items(offset, records) with L = len(records) at least
\* twice the reload margin, needs_data(idx, max) is false for every idx in
\* [offset+margin, offset+L-1-margin] and every max, true for idx = offset-1
\* when offset > 0, and true for idx = offset+L when offset+L <= max.
C15_NeedsDataWindow ==
    LET margin == SLICE_OFFSET_RELOAD_THRESHOLD
        offset == index_offset
        L == Len(items)
    IN  (fpc = "set_items" /\ L >= 2 * margin) =>
           /\ \A idx \in Usize, max \in Usize :
                  (offset + margin <= idx /\ idx <= offset + L - 1 - margin)
                      => ~needs_data(idx, max)
           /\ offset > 0 => \A max \in Usize : needs_data(offset - 1, max)
           /\ \A max \in Usize :
                  offset + L <= max => needs_data(offset + L, max)
           /\ (fin.called /\ offset + margin <= fin.idx
                   /\ fin.idx <= offset + L - 1 - margin) => ~fout
           /\ (fin.called /\ offset > 0 /\ fin.idx = offset - 1) => fout
           /\ (fin.called /\ fin.idx = offset + L
                   /\ offset + L <= fin.idx_max) => fout

\* a batch set at a positive offset, long enough to have an inner window,
\* and a needs_data call inside the window that returned false
C15_Witness ==
    /\ fpc = "set_items"
    /\ Len(items) > 2 * SLICE_OFFSET_RELOAD_THRESHOLD
    /\ index_offset > 0
    /\ last_idx < UsizeMax
    /\ fin.called
    /\ index_offset + SLICE_OFFSET_RELOAD_THRESHOLD <= fin.idx
    /\ fin.idx <= last_idx - 1 - SLICE_OFFSET_RELOAD_THRESHOLD
    /\ fin.idx_max = UsizeMax
    /\ ~fout

\* some tag name of the commit contains the pattern, both lowercased
TagHit(c, tags, pattern) ==
    /\ tags.some
    /\ c.id \in DOMAIN tags.map
    /\ \E i \in 1..Len(tags.map[c.id]) :
          contains(to_lowercase(tags.map[c.id][i]), to_lowercase(pattern))

\* some text field (identifier, author, message) of the commit contains the
\* pattern, both lowercased
TextHit(c, pattern) ==
    \E f \in ScalarFields :
        contains(to_lowercase(FieldText(c, f)), to_lowercase(pattern))

\* C16 (as claimed): the default flag set, from FilterBy::default and from
\* everywhere(), is exactly {identifier, author, message}: no modifier and
\* no other selector, so a clause carrying it looks at the three text
\* fields only.
C16_DefaultTextFields ==
    (fpc = "out" /\ IsSingleClause(fin.expr)
        /\ TheClause.filter = FilterBy_default) =>
       /\ FilterBy_default = {SHA, AUTHOR, MESSAGE}
       /\ FilterBy_everywhere = {SHA, AUTHOR, MESSAGE}
       /\ fout = SelectSeq(fin.commits, LAMBDA c : TextHit(c, TheClause.s))

\* C16 (amended): the default flag set, from FilterBy::default and from
\* everywhere(), is exactly the four field selectors {identifier, author,
\* message, tags} with neither modifier: a clause carrying it keeps a commit
\* iff the pattern occurs, case-insensitively, in one of the three text
\* fields or in one of the commit's tag names.
C16_DefaultAllSelectors ==
    /\ FilterBy_default = {SHA, AUTHOR, MESSAGE, TAGS}
    /\ FilterBy_everywhere = {SHA, AUTHOR, MESSAGE, TAGS}
    /\ exclude_modifiers(FilterBy_default) = FilterBy_default
    /\ (fpc = "out" /\ IsSingleClause(fin.expr)
           /\ TheClause.filter = FilterBy_default) =>
          fout = SelectSeq(fin.commits,
                    LAMBDA c : \/ TextHit(c, TheClause.s)
                               \/ TagHit(c, fin.tags, TheClause.s))

\* a clause with the default flags kept a commit for one of its tag names
\* alone
C16_Witness ==
    /\ fpc = "out"
    /\ IsSingleClause(fin.expr)
    /\ TheClause.filter = FilterBy_default
    /\ Len(fin.commits) = 1
    /\ ~TextHit(fin.commits[1], TheClause.s)
    /\ TagHit(fin.commits[1], fin.tags, TheClause.s)
    /\ fout = fin.commits

\* r is c with some positions left out
IsSubsequence(r, c) ==
    \E f \in [1..Len(r) -> 1..Len(c)] :
        /\ \A i, j \in 1..Len(r) : i < j => f[i] < f[j]
        /\ \A i \in 1..Len(r) : r[i] = c[f[i]]

\* C17: filter(C, E) is a subsequence of C: it holds only elements of C, in
\* the order of C, each position of C at most once.
C17_FilterIsSubsequence ==
    fpc = "out" => IsSubsequence(fout, fin.commits)

\* filter dropped a record and kept two different ones
C17_Witness ==
    /\ fpc = "out"
    /\ Len(fout) >= 2
    /\ Len(fout) < Len(fin.commits)
    /\ fout[1] # fout[2]

\* the records the log source holds
LogRecords == get_commits_info(0, logLen)

\* C18: when a run that was never cancelled has stored Finished, the result
\* buffer is filter(L, E) for the complete final log L: every record of the
\* log was evaluated exactly once, also when the log was still growing
\* while the run read it.
C18_FinishedRunComplete ==
    (/\ nCalls = 1
     /\ ~stopped
     /\ task[1].pc = "finished"
     /\ ~logPending) =>
        BufferRecords = Filter(LogRecords, task[1].tags, task[1].expr)

\* closure k ends an iteration in this step because get_slice or
\* get_commits_info returned an error
FailsIteration(k) ==
    /\ k \in Calls
    /\ task[k].pc \in {"get_slice", "get_info"}
    /\ task'[k].pc = "loop"

\* C19: an iteration whose slice fetch or record resolution fails changes
\* nothing: cursor, counter, buffer and status keep their values, no
\* notification is sent, and the closure is back at its cancellation check
\* with the same cursor to request.
C19_FailedIterationNoEffect ==
    [][\A k \in 1..MaxStarts : FailsIteration(k) =>
          /\ task'[k].cur_index = task[k].cur_index
          /\ task'[k].appended = task[k].appended
          /\ ~task'[k].notified
          /\ UNCHANGED <<filter_count, filtered_commits,
                         filter_finished>>]_vars

\* the resolution of a non-empty slice failed (only then is a closure at
\* its cancellation check with a batch size left over) while counter and
\* buffer held a match
C19_Witness ==
    \E k \in Calls :
        /\ task[k].pc = "loop"
        /\ task[k].n > 0
        /\ ~task[k].notified
        /\ filter_count > 0
        /\ filtered_commits # <<>>

\* closure k has been told to stop (a stop message is in its channel or
\* its sender was replaced) and has not returned yet
Cancelled(k) ==
    /\ k \in Calls
    /\ task[k].pc \notin Terminal
    /\ (k \in signalled \/ filter_thread_sender # k)

\* C20: under fair scheduling a run that stop_filter or a superseding
\* start_filter has cancelled eventually leaves its loop and drops its
\* guards, also while its fetches keep failing and also when it had not
\* begun executing when the signal was sent.
C20_CancelledRunExits ==
    \A k \in 1..MaxStarts :
        Cancelled(k) ~> (k \in Calls /\ task[k].pc \in Terminal)
\* run k is the last start_filter call of the behaviour, it spawned its
\* closure, and stop_filter has not been called since
LastRun(k) ==
    IF nCalls = k THEN res[k] = "ok" /\ ~stopped ELSE FALSE

\* C21: under fair scheduling, a run that from some point on is the last
\* one started and is never stopped, whose slice fetches and record
\* resolutions fail only finitely often, on a log that stops being pending,
\* eventually stores Finished and returns.
C21_RunFinishes ==
    \A k \in 1..MaxStarts :
        (/\ <>[]LastRun(k)
         /\ <>[][\A j \in 1..MaxStarts : ~FailsIteration(j)]_vars)
            => <>(k \in Calls /\ task[k].pc = "finished" /\ filter_finished)

\* a run that superseded another one was never stopped, appended a match
\* and reached the end of the log
C21_Witness ==
    \E k \in Calls :
        /\ LastRun(k)
        /\ k > 1
        /\ task[k].pc = "finished"
        /\ task[k].appended > 0
        /\ filter_finished
        /\ ~logPending
\* stop_filter has returned for run k (called on its own, or by the
\* start_filter that replaced k's sender) and closure k has not returned
StoppedRun(k) ==
    /\ k \in Calls
    /\ task[k].pc \notin Terminal
    /\ (stopped \/ filter_thread_sender # k)

\* fetch_add calls and appends a closure at pc can still make before it is
\* at its cancellation check again
AddsLeft(pc) ==
    IF pc \in {"get_slice", "get_info", "add_count"} THEN 1 ELSE 0
AppendsLeft(pc) ==
    IF pc \in {"get_slice", "get_info", "add_count", "append"} THEN 1 ELSE 0

\* the entries of the buffer that run k appended
OwnMatches(buf, k) == SelectSeq(buf, LAMBDA e : e.run = k)

IsPrefix(a, b) == Len(a) <= Len(b) /\ SubSeq(b, 1, Len(a)) = a

\* C22: once stop_filter has returned, the stopped run adds to the counter
\* at most once more and appends at most one more batch, both in the
\* iteration that was past its cancellation check, and it removes none of
\* the matches it had appended.  Stated on every step of a stopped closure:
\* the number of adds and of appends it can still make is at most one and
\* never grows, each add and each append uses it up, the cancellation check
\* ends the closure, and the closure's own entries stay in the buffer.
C22_BoundedAfterStop ==
    [][\A k \in 1..MaxStarts :
          (StoppedRun(k) /\ task'[k] # task[k]) =>
             /\ AddsLeft(task'[k].pc) <= AddsLeft(task[k].pc)
             /\ AppendsLeft(task'[k].pc) <= AppendsLeft(task[k].pc)
             /\ task[k].pc = "loop" => task'[k].pc = "done"
             /\ filter_count' # filter_count =>
                   \/ /\ AddsLeft(task'[k].pc) < AddsLeft(task[k].pc)
                      /\ filter_count' > filter_count
                   \/ /\ task[k].pc = "reset_count"
                      /\ task[k].appended = 0
             /\ filtered_commits' # filtered_commits =>
                   \/ /\ AppendsLeft(task'[k].pc) < AppendsLeft(task[k].pc)
                      /\ IsPrefix(filtered_commits, filtered_commits')
                   \/ /\ task[k].pc = "reset_buffer"
                      /\ task[k].appended = 0
             /\ IsPrefix(OwnMatches(filtered_commits, k),
                         OwnMatches(filtered_commits', k))]_vars

\* stop_filter returned while the closure held a batch with a match: the
\* stop message is in its channel and the closure is about to append
C22_Witness ==
    \E k \in Calls :
        /\ stopped
        /\ filter_thread_sender = k
        /\ k \in signalled
        /\ task[k].pc = "append"
        /\ Len(Filtered(k)) > 0
\* C23: get_filter_items is total over the machine word: for every start
\* and amount the sum min(start, len) + amount fits a usize (it neither
\* overflows nor wraps), the call does not panic, and the lower bound of the
\* range it slices is at most the upper bound.
C23_TotalOverUsize ==
    fpc = "out" =>
        LET len == Len(BufferRecords)
            min == umin(fin.start, len)
        IN  /\ min + fin.amount <= UsizeMax
            /\ fout.ok
            /\ min <= umin((min + fin.amount) % 2^WordBits, len)
\* C24: the orchestrator keeps the window-cache invariant against the log:
\* after every successful fetch_commits, in non-filtering and in filtering
\* mode and for every selection, the cache entry at position i is the log
\* record at log index index_offset + i, and index_offset + len is the
\* exclusive upper bound of the log range cached (so it is within the log).
C24_WindowCacheInvariant ==
    (fpc = "fetch_commits" /\ fout # "Err") =>
        /\ last_idx <= logLen
        /\ \A i \in 1..Len(items) :
               items[i] = LogEntryFrom(LogCommit(index_offset + i))
=============================================================================
